---------------------------- MODULE Spec2Model ----------------------------
(***************************************************************************)
(* A model of sos_notebook/workflow_executor.py: the controller lifecycle  *)
(* (start_controller / stop_controller), the worker process                *)
(* (Tapped_Executor.run) and the mode dispatcher (run_sos_workflow) with   *)
(* its scratch executor (execute_scratch_cell).                            *)
(*                                                                         *)
(* One main process calls the three entry points one at a time; controller *)
(* service threads and worker processes run concurrently with it.          *)
(***************************************************************************)
EXTENDS Integers, Sequences, FiniteSets, TLC

(* ------------------------------ bounds --------------------------------- *)

\* number of start_controller calls the caller makes
MaxControllers == 2
\* number of worker processes that can be spawned (a process gets past
\* line 166 of run_sos_workflow once, so a behaviour spawns at most one)
MaxWorkers == 2
\* number of lines of a code cell
MaxLines == 2
\* largest return code of a remote command
MaxExit == 2

Ctl == 1..MaxControllers
Wrk == 1..MaxWorkers

(* ------------------------- values of the model ------------------------- *)

\* A cell's code is a sequence of lines; a line is whitespace only, an
\* ordinary statement, a section header ("[name]"), or a line that starts
\* with %include / %from.
LineKinds == {"blank", "stmt", "header", "include"}

Codes == UNION {[1..n -> LineKinds] : n \in 0..MaxLines}

\* raw_args as the token lists the caller passes
RawArgs ==
    { <<>>, <<"-h">>, <<"-v", "3">>, <<"-r", "host">>,
      <<"-b", "~/.sos/bin">>, <<"-v">> }

\* raw_args that override the DAG file (-d) or the report file (-p), with
\* an empty string or with a name
OutputArgs ==
    { <<"-d", "">>, <<"-d", "my.dot">>, <<"-p", "">>, <<"-p", "my.html">>,
      <<"-d", "my.dot", "-p", "">> }

\* Python's None, as the value of an option or of a configuration key
NoValue == "None"

\* what datetime.now().strftime('%m%d%y_%H%M') can give (line 167)
Stamps == {"110126_0900", "110126_0901"}

\* the keys of env.sos_dict that the module names
StepKeys ==
    { "__step_output__", "__step_input__", "__default_output__",
      "step_input", "step_output", "step_depends",
      "_input", "_output", "_depends" }

OtherKeys ==
    { "workflow_id", "CONFIG", "__signature_vars__", "__environ_vars__",
      "__changed_vars__" }

DictKeys == StepKeys \cup OtherKeys

\* a binding of env.sos_dict: absent, a value bound before the dispatch now
\* running (or last run) was called, the empty sos_targets([]) it has set, or
\* a value it has bound
Absent == "absent"
Earlier == "earlier"
EmptyTargets == "empty"
Current == "current"

\* the dictionary as a new dispatch finds it: what is bound was bound earlier
AsFound(d) == [k \in DOMAIN d |-> IF d[k] = Absent THEN Absent ELSE Earlier]

\* no dispatch has got past line 166 yet
NoReq == [active |-> FALSE, raw |-> <<>>, workflow_mode |-> FALSE]

\* how a dispatch ended
NoResult == [kind |-> "none", val |-> "None"]

VARIABLES
    \* --- the main process
    mpc,        \* position of the main process
    cur,        \* the controller the running start/stop call is about
    req,        \* the request of the last dispatch that installed its handler
    result,     \* how the last dispatch ended: returned a value or raised
    took,       \* the execution paths the last dispatch has taken
    script,     \* the script the inline path has built (line 277)
    \* --- process-wide state
    sys_argv, verbosity, handlers, os_path, fs, sos_dict, config,
    stderr, stream, hosts,
    \* --- controllers
    nctl,       \* start_controller calls made so far
    thread,     \* the controller service threads
    ready,      \* each controller's readiness Event
    life,       \* each handle's lifecycle state
    bound,      \* the controller the process-wide sockets are connected to
    reqSock,    \* env.controller_req_socket
    handles,    \* handles returned by start_controller
    stopped,    \* handles already passed to stop_controller
    hist,       \* per handle: what stop_controller has done for it
    \* --- workers
    nwork, wpc, wexc, logChan, replyChan, wrecv

mainVars == <<mpc, cur, req, result, took, script>>
ctxVars == <<sys_argv, verbosity, handlers, os_path, fs, sos_dict, config,
             stderr, stream, hosts>>
ctlVars == <<nctl, thread, ready, life, bound, reqSock, handles, stopped, hist>>
wrkVars == <<nwork, wpc, wexc, logChan, replyChan, wrecv>>
vars == <<mainVars, ctxVars, ctlVars, wrkVars>>


(* ----------------------- process-wide state ---------------------------- *)

NoHist == [sent |-> 0, acked |-> FALSE, released |-> FALSE, joined |-> FALSE]

NoChan == [st |-> "closed", to |-> 0, sends |-> 0, recvs |-> 0]

Init ==
    /\ mpc = "idle"
    /\ cur = 0
    /\ req = NoReq
    /\ result = NoResult
    /\ took = {}
    /\ script = <<>>
    /\ sys_argv = <<"kernel">>
    /\ verbosity = 2
    /\ handlers = <<[kind |-> "stream", level |-> "INFO", title |-> <<>>]>>
    /\ os_path = <<"/usr/bin">>
    /\ fs = {}
    /\ sos_dict = [k \in DictKeys |-> IF k \in StepKeys THEN Earlier ELSE Absent]
    /\ config = [tapping |-> "none", sockets |-> 0, sig_mode |-> "default",
                 master_id |-> "", workflow_id |-> "", run_mode |-> "",
                 output_dag |-> NoValue, output_report |-> NoValue]
    /\ stderr = <<>>
    /\ stream = <<>>
    /\ hosts = {}
    /\ nctl = 0
    /\ thread = [c \in Ctl |-> "none"]
    /\ ready = [c \in Ctl |-> FALSE]
    /\ life = [c \in Ctl |-> "Uninitialized"]
    /\ bound = 0
    /\ reqSock = NoChan
    /\ handles = {}
    /\ stopped = {}
    /\ hist = [c \in Ctl |-> NoHist]
    /\ nwork = 0
    /\ wpc = [w \in Wrk |-> "none"]
    /\ wexc = [w \in Wrk |-> "none"]
    /\ logChan = <<>>
    /\ replyChan = [w \in Wrk |-> NoChan]
    /\ wrecv = [w \in Wrk |-> "none"]

\* a dispatch ends: its caller has a value or an exception
Return(v) == [kind |-> "return", val |-> v]
Raise(e) == [kind |-> "raise", val |-> e]

(* ------------------------ start_controller ----------------------------- *)

\* lines 53-59: a new zmq context, env.config['tapping'] = 'master', the
\* Controller thread is created with its readiness Event and started
StartCall ==
    /\ mpc = "idle"
    /\ nctl < MaxControllers
    /\ nctl' = nctl + 1
    /\ cur' = nctl + 1
    /\ config' = [config EXCEPT !.tapping = "master"]
    /\ thread' = [thread EXCEPT ![nctl + 1] = "running"]
    /\ life' = [life EXCEPT ![nctl + 1] = "Starting"]
    /\ mpc' = "sc_wait"
    /\ UNCHANGED <<req, script, result, took>>
    /\ UNCHANGED <<sys_argv, verbosity, handlers, os_path, fs, sos_dict,
                   stderr, stream, hosts>>
    /\ UNCHANGED <<ready, bound, reqSock, handles, stopped, hist>>
    /\ UNCHANGED wrkVars

\* a start_controller without line 61: it does not wait for the Event
ReadyNotAwaited(c) == TRUE

\* line 61: ready.wait() returns once the Event is set
ReadyObserved(c) == ready[c]

StartWait ==
    /\ mpc = "sc_wait"
    /\ ReadyObserved(cur)
    /\ mpc' = "sc_connect"
    /\ UNCHANGED <<cur, req, script, result, took>>
    /\ UNCHANGED ctxVars
    /\ UNCHANGED ctlVars
    /\ UNCHANGED wrkVars

\* lines 62-63: connect_controllers binds the process-wide sockets to the
\* ports saved in env.config, and the controller is returned
StartConnect ==
    /\ mpc = "sc_connect"
    /\ bound' = config.sockets
    /\ reqSock' = [st |-> "idle", to |-> config.sockets, sends |-> 0, recvs |-> 0]
    /\ handles' = handles \cup {cur}
    /\ life' = [life EXCEPT ![cur] = "Ready"]
    /\ mpc' = "idle"
    /\ cur' = 0
    /\ UNCHANGED <<req, script, result, took>>
    /\ UNCHANGED ctxVars
    /\ UNCHANGED <<nctl, thread, ready, stopped, hist>>
    /\ UNCHANGED wrkVars

(* ------------------------- stop_controller ----------------------------- *)

\* a stop_controller without lines 66-67: with an absent controller it goes
\* on to line 68
StopNoneSends ==
    /\ mpc = "idle"
    /\ reqSock' = IF reqSock.st = "idle"
                  THEN [reqSock EXCEPT !.st = "sent", !.sends = @ + 1]
                  ELSE reqSock
    /\ UNCHANGED <<mpc, cur, req, script, result, took>>
    /\ UNCHANGED ctxVars
    /\ UNCHANGED <<nctl, thread, ready, life, bound, handles, stopped, hist>>
    /\ UNCHANGED wrkVars

\* lines 66-67: an absent controller: return at once
StopNone ==
    /\ mpc = "idle"
    /\ UNCHANGED <<mpc, cur, req, script, result, took>>
    /\ UNCHANGED ctxVars
    /\ UNCHANGED ctlVars
    /\ UNCHANGED wrkVars

\* stop_controller(h) with a handle start_controller returned; the caller
\* passes each handle at most once
StopCall(h) ==
    /\ mpc = "idle"
    /\ h \in handles \ stopped
    /\ stopped' = stopped \cup {h}
    /\ cur' = h
    /\ mpc' = "stop_send"
    /\ UNCHANGED <<req, script, result, took>>
    /\ UNCHANGED ctxVars
    /\ UNCHANGED <<nctl, thread, ready, life, bound, reqSock, handles, hist>>
    /\ UNCHANGED wrkVars

\* line 68: env.controller_req_socket.send_pyobj(['done']); a socket that
\* disconnect_controllers has closed raises
StopSend ==
    /\ mpc = "stop_send"
    /\ IF reqSock.st = "idle"
       THEN /\ reqSock' = [reqSock EXCEPT !.st = "sent", !.sends = @ + 1]
            /\ hist' = [hist EXCEPT ![cur].sent = @ + 1]
            /\ life' = [life EXCEPT ![cur] = "Stopping"]
            /\ mpc' = "stop_recv"
            /\ UNCHANGED cur
       ELSE \* the call raises
            /\ mpc' = "idle"
            /\ cur' = 0
            /\ UNCHANGED <<reqSock, hist, life>>
    /\ UNCHANGED <<req, script, result, took>>
    /\ UNCHANGED ctxVars
    /\ UNCHANGED <<nctl, thread, ready, bound, handles, stopped>>
    /\ UNCHANGED wrkVars

\* line 69: env.controller_req_socket.recv() blocks for the reply
StopRecv ==
    /\ mpc = "stop_recv"
    /\ reqSock.st = "replied"
    /\ reqSock' = [reqSock EXCEPT !.st = "idle", !.recvs = @ + 1]
    /\ hist' = [hist EXCEPT ![cur].acked = TRUE]
    /\ mpc' = "stop_disc"
    /\ UNCHANGED <<cur, req, script, result, took>>
    /\ UNCHANGED ctxVars
    /\ UNCHANGED <<nctl, thread, ready, life, bound, handles, stopped>>
    /\ UNCHANGED wrkVars

\* line 70: disconnect_controllers() closes the process-wide sockets
StopDisconnect ==
    /\ mpc = "stop_disc"
    /\ bound' = 0
    /\ reqSock' = [reqSock EXCEPT !.st = "closed"]
    /\ hist' = [hist EXCEPT ![cur].released = TRUE]
    /\ mpc' = "stop_join"
    /\ UNCHANGED <<cur, req, script, result, took>>
    /\ UNCHANGED ctxVars
    /\ UNCHANGED <<nctl, thread, ready, life, handles, stopped>>
    /\ UNCHANGED wrkVars

\* line 71: controller.join() returns once the thread has ended
StopJoin ==
    /\ mpc = "stop_join"
    /\ thread[cur] = "exited"
    /\ hist' = [hist EXCEPT ![cur].joined = TRUE]
    /\ life' = [life EXCEPT ![cur] = "Stopped"]
    /\ mpc' = "idle"
    /\ cur' = 0
    /\ UNCHANGED <<req, script, result, took>>
    /\ UNCHANGED ctxVars
    /\ UNCHANGED <<nctl, thread, ready, bound, reqSock, handles, stopped>>
    /\ UNCHANGED wrkVars

(* ---------------- the Controller Service (sos.controller) -------------- *)

\* the service thread saves its socket ports to env.config and sets the
\* readiness Event
ControllerReady(c) ==
    /\ thread[c] = "running"
    /\ ~ready[c]
    /\ ready' = [ready EXCEPT ![c] = TRUE]
    /\ config' = [config EXCEPT !.sockets = c]
    /\ UNCHANGED mainVars
    /\ UNCHANGED <<sys_argv, verbosity, handlers, os_path, fs, sos_dict,
                   stderr, stream, hosts>>
    /\ UNCHANGED <<nctl, thread, life, bound, reqSock, handles, stopped, hist>>
    /\ UNCHANGED wrkVars

\* the service acknowledges the 'done' request and its thread ends
ControllerDone(c) ==
    /\ thread[c] = "running"
    /\ ready[c]
    /\ reqSock.st = "sent"
    /\ reqSock.to = c
    /\ reqSock' = [reqSock EXCEPT !.st = "replied"]
    /\ thread' = [thread EXCEPT ![c] = "exited"]
    /\ UNCHANGED mainVars
    /\ UNCHANGED ctxVars
    /\ UNCHANGED <<nctl, ready, life, bound, handles, stopped, hist>>
    /\ UNCHANGED wrkVars

\* the service acknowledges a worker's outcome
ControllerAck(c, w) ==
    /\ thread[c] = "running"
    /\ ready[c]
    /\ replyChan[w].st = "sent"
    /\ replyChan[w].to = c
    /\ replyChan' = [replyChan EXCEPT ![w].st = "replied"]
    /\ UNCHANGED mainVars
    /\ UNCHANGED ctxVars
    /\ UNCHANGED ctlVars
    /\ UNCHANGED <<nwork, wpc, wexc, logChan, wrecv>>


(* ------------------ Tapped_Executor.run (worker process) --------------- *)

\* what the engine can raise; SystemExit is not an Exception in Python
ExceptionKinds == {"PendingTasks", "UnknownTarget", "RemovedTarget", "RuntimeError"}
EngineRaises == ExceptionKinds \cup {"SystemExit"}

\* `except Exception` (lines 126, 210, 289)
IsException(e) == e # "SystemExit"

\* the attributes of env that are sockets of the worker
EnvSockets == {"tapping_logging_socket", "tapping_controller_socket"}

\* line 123 sends the outcome on env.tapping_controller_socket
OutcomeChannel == "tapping_controller_socket"

\* line 124 receives on env.tapping_controller.socket
AckChannel == "tapping_controller.socket"

\* lines 118-121: the engine runs the workflow; it returns or raises
WExecute(w) ==
    /\ wpc[w] = "start"
    /\ \E out \in {"ok", "RuntimeError", "SystemExit"} :
          IF out = "ok"
          THEN /\ wpc' = [wpc EXCEPT ![w] = "ran"]
               /\ UNCHANGED wexc
          ELSE /\ wexc' = [wexc EXCEPT ![w] = out]
               /\ wpc' = [wpc EXCEPT ![w] =
                            IF IsException(out) THEN "except" ELSE "exited"]
    /\ UNCHANGED mainVars
    /\ UNCHANGED ctxVars
    /\ UNCHANGED ctlVars
    /\ UNCHANGED <<nwork, logChan, replyChan, wrecv>>

\* line 122: the DONE marker on the log channel
WLogDone(w) ==
    /\ wpc[w] = "ran"
    /\ logChan' = Append(logChan, <<w, "DONE">>)
    /\ wpc' = [wpc EXCEPT ![w] = "logged"]
    /\ UNCHANGED mainVars
    /\ UNCHANGED ctxVars
    /\ UNCHANGED ctlVars
    /\ UNCHANGED <<nwork, wexc, replyChan, wrecv>>

\* line 123: the outcome on the reply channel
WSendOutcome(w) ==
    /\ wpc[w] = "logged"
    /\ replyChan' = [replyChan EXCEPT ![w].st = "sent", ![w].sends = @ + 1]
    /\ wpc' = [wpc EXCEPT ![w] = "sent"]
    /\ UNCHANGED mainVars
    /\ UNCHANGED ctxVars
    /\ UNCHANGED ctlVars
    /\ UNCHANGED <<nwork, wexc, logChan, wrecv>>

\* lines 124-125: the receive of the acknowledgement. On the socket the
\* outcome was sent on it blocks for the reply and the worker ends; an
\* attribute env does not have raises AttributeError, which line 126 catches
WRecvAck(w) ==
    /\ wpc[w] = "sent"
    /\ wrecv' = [wrecv EXCEPT ![w] = AckChannel]
    /\ IF AckChannel = OutcomeChannel
       THEN /\ replyChan[w].st = "replied"
            /\ replyChan' = [replyChan EXCEPT ![w].st = "idle", ![w].recvs = @ + 1]
            /\ wpc' = [wpc EXCEPT ![w] = "exited"]
            /\ UNCHANGED wexc
       ELSE /\ AckChannel \notin EnvSockets
            /\ wexc' = [wexc EXCEPT ![w] = "AttributeError"]
            /\ wpc' = [wpc EXCEPT ![w] = "except"]
            /\ UNCHANGED replyChan
    /\ UNCHANGED mainVars
    /\ UNCHANGED ctxVars
    /\ UNCHANGED ctlVars
    /\ UNCHANGED <<nwork, logChan>>

\* lines 126-128: the exception's text on the log channel, and the worker ends
WHandler(w) ==
    /\ wpc[w] = "except"
    /\ logChan' = Append(logChan, <<w, wexc[w]>>)
    /\ wpc' = [wpc EXCEPT ![w] = "exited"]
    /\ UNCHANGED mainVars
    /\ UNCHANGED ctxVars
    /\ UNCHANGED ctlVars
    /\ UNCHANGED <<nwork, wexc, replyChan, wrecv>>

(* --------------------------- run_sos_workflow -------------------------- *)

Has(raw, t) == \E i \in 1..Len(raw) : raw[i] = t

\* the value that follows an option, or the default
ValueOf(raw, flag, default) ==
    IF \E i \in 1..(Len(raw) - 1) : raw[i] = flag
    THEN raw[(CHOOSE i \in 1..(Len(raw) - 1) : raw[i] = flag) + 1]
    ELSE default

\* line 139: raw_args[0].lstrip().startswith('-')
IsFlag(t) == t \in {"-h", "-v", "-r", "-b", "-d", "-p"}

\* parser.error = _parse_error: an option without its value raises
ParseFails(raw) == raw # <<>> /\ raw[Len(raw)] \in {"-v", "-r", "-b"}

\* lines 139-147: the parsed arguments; args.workflow is None ("") when the
\* first token is an option
Args(raw) ==
    [verbosity |-> IF ValueOf(raw, "-v", "2") = "3" THEN 3 ELSE 2,
     remote |-> ValueOf(raw, "-r", ""),
     bin_dirs |-> IF Has(raw, "-b") THEN <<ValueOf(raw, "-b", "")>> ELSE <<>>,
     dag |-> ValueOf(raw, "-d", NoValue),
     report |-> ValueOf(raw, "-p", NoValue),
     workflow |-> IF raw = <<>> \/ IsFlag(raw[1]) THEN "" ELSE raw[1],
     sig_mode |-> "default"]

\* a dispatcher that tests `if not args.__dag__` and so takes the empty
\* string for an option that was not given
ResolveEmptyAsDefault(override, default) ==
    IF override \in {NoValue, ""} THEN default ELSE override

\* lines 168-171 and 173-176: the default when the option was not given,
\* None when it was given empty, else the name given
Resolve(override, default) ==
    IF override = NoValue THEN default
    ELSE IF override = "" THEN NoValue
    ELSE override

\* lines 169, 174
DefaultDag(dt) == "workflow_" \o dt \o ".dot"
DefaultReport(dt) == "workflow_" \o dt \o ".html"

\* lines 155-162
Levels(v) ==
    CASE v = 0 -> "ERROR" [] v = 1 -> "WARNING" [] v = 2 -> "INFO"
      [] v = 3 -> "DEBUG" [] OTHER -> "TRACE"

\* not code.strip()
Blank(code) == \A i \in 1..Len(code) : code[i] = "blank"

\* line 275: some line is a section header or starts with %from / %include
HasSection(code) == \E i \in 1..Len(code) : code[i] \in {"header", "include"}

\* a dispatcher that hands the code over as it is
NoWrap(code) == code

\* line 276: '[scratch_0]\n' + code
Wrap(code) == <<"header">> \o code

\* What the dispatcher reads of its code argument: `code is None` (line 135),
\* `not code.strip()` (lines 188, 254) and the scan of its lines (line 275),
\* and the script it builds of code that the scan lets through (lines 276-277)
Accepted(hasCode, code) == hasCode /\ ~Blank(code) /\ ~HasSection(code)

CodeView(hasCode, code) ==
    [none |-> ~hasCode, blank |-> hasCode /\ Blank(code),
     section |-> hasCode /\ HasSection(code),
     script |-> IF Accepted(hasCode, code) THEN Wrap(code) ELSE <<>>]

\* the views of None and of every text of at most MaxLines lines
CodeViews ==
    {CodeView(FALSE, <<>>)} \cup {CodeView(TRUE, code) : code \in Codes}

\* a dispatcher that tests workflow_mode before args.__remote__
RouteWorkerFirst(raw, wm) ==
    IF wm THEN "worker"
    ELSE IF Args(raw).remote # "" THEN "remote"
    ELSE "scratch"

\* lines 179, 256, 270: the execution path of a request
Route(raw, wm) ==
    IF Args(raw).remote # "" THEN "remote"
    ELSE IF wm THEN "worker"
    ELSE "scratch"

\* lines 216-221: the binary directories are put in front of PATH, and the
\* default directory is created when it is missing
PrepPath(a, path) == IF a.bin_dirs # <<>> THEN a.bin_dirs \o path ELSE path

PrepFs(a, files) ==
    files \cup {a.bin_dirs[i] : i \in {j \in 1..Len(a.bin_dirs) : a.bin_dirs[j] = "~/.sos/bin"}}

\* a list of keys to remove that leaves 'step_depends' out
ClearedKeysShort ==
    { "__step_input__", "__default_output__", "step_input", "step_output",
      "_input", "_output", "_depends" }

\* lines 225-228: '__step_output__' is reset and these keys are removed
ClearedKeys ==
    { "__step_input__", "__default_output__", "step_input", "step_output",
      "step_depends", "_input", "_output", "_depends" }

ClearStepKeys(d) ==
    [k \in DictKeys |->
        IF k = "__step_output__" THEN EmptyTargets
        ELSE IF k \in ClearedKeys THEN Absent
        ELSE d[k]]

\* lines 75-82 of execute_scratch_cell, on the dictionary
ScratchKeys == {"__step_input__", "__default_output__", "__step_output__"}

ScratchClear(d) ==
    [k \in DictKeys |->
        IF k \in ScratchKeys THEN Absent
        ELSE IF k = "workflow_id" THEN Current
        ELSE d[k]]

\* lines 87-91
SetAnalysis(d) ==
    [k \in DictKeys |->
        IF k \in {"__signature_vars__", "__environ_vars__", "__changed_vars__"}
        THEN Current ELSE d[k]]

\* what the step leaves in the dictionary when it has run
StepWrites(d) ==
    [k \in DictKeys |-> IF k \in StepKeys THEN Current ELSE d[k]]

\* line 94: the exceptions that carry a target, and the target each carries
TargetErrors == {"UnknownTarget", "RemovedTarget"}

Target(e) == IF e = "UnknownTarget" THEN "unknown.txt" ELSE "removed.txt"

\* a scratch executor without the handler of lines 94-95
ConvertNothing(e) == e

\* lines 94-95: raise RuntimeError(f'Unavailable target {e.target}')
Convert(e) ==
    IF e \in TargetErrors
    THEN "RuntimeError: Unavailable target " \o Target(e)
    ELSE e

\* a dispatcher whose handlers re-raise whatever the try block raises
ClassifyAllRaise(e) == Raise(e)

\* lines 283-292: how the dispatch ends when the try block raises e
Classify(e) == IF e = "SystemExit" THEN Return("None") ELSE Raise(e)

\* lines 289-291
WritesTrace(e, a) == e \notin {"PendingTasks", "SystemExit"} /\ a.verbosity > 2

\* lines 294-295
FinallyConfig(c) == [c EXCEPT !.sig_mode = "ignore"]
FinallyVerbosity == 2

\* lines 135-147: there is code, no help flag, and the arguments parse
Parses(cv, raw) == ~cv.none /\ ~Has(raw, "-h") /\ ~ParseFails(raw)

\* line 153
InstallsHandler(kernel) == kernel /\ handlers[1].kind # "notebook"

\* the caller makes a call
Called ==
    /\ mpc = "idle"
    /\ UNCHANGED cur
    /\ UNCHANGED ctlVars

\* lines 135-138: no code or a help flag: the usage is printed
RswHelp ==
    /\ Called
    /\ \E cv \in CodeViews, raw \in RawArgs : cv.none \/ Has(raw, "-h")
    /\ result' = Return("None")
    /\ UNCHANGED <<mpc, req, script, took>>
    /\ UNCHANGED ctxVars
    /\ UNCHANGED wrkVars

\* lines 139-147: _parse_error raises
RswArgError ==
    /\ Called
    /\ \E cv \in CodeViews, raw \in RawArgs :
          ~cv.none /\ ~Has(raw, "-h") /\ ParseFails(raw)
    /\ result' = Raise("ArgumentError")
    /\ UNCHANGED <<mpc, req, script, took>>
    /\ UNCHANGED ctxVars
    /\ UNCHANGED wrkVars

\* lines 150-153, 166: without a kernel, or with the handler already there,
\* env.logger.handers raises AttributeError
RswNoHandler(raw, kernel) ==
    /\ Called
    /\ \E cv \in CodeViews : Parses(cv, raw)
    /\ ~InstallsHandler(kernel)
    /\ sys_argv' = <<"%run">> \o raw
    /\ verbosity' = Args(raw).verbosity
    /\ result' = Raise("AttributeError")
    /\ UNCHANGED <<mpc, req, script, took>>
    /\ UNCHANGED <<handlers, os_path, fs, sos_dict, config, stderr, stream, hosts>>
    /\ UNCHANGED wrkVars

\* lines 135-164: the call gets past the handler's installation
Entered(cv, raw, kernel, wm) ==
    /\ Called
    /\ Parses(cv, raw)
    /\ InstallsHandler(kernel)
    /\ sys_argv' = <<"%run">> \o raw
    /\ handlers' = <<[kind |-> "notebook", level |-> Levels(Args(raw).verbosity),
                      title |-> <<"%run">> \o raw]>>
    /\ req' = [active |-> TRUE, raw |-> raw, workflow_mode |-> wm]

\* the return codes of the remote command
ExitCodes == 0..MaxExit

\* what the remote host and the transport can do to a delegation: Host()
\* raises, send_to_host raises, run_command raises, or it returns a code
RemoteFailures == {"resolve_fails", "send_fails", "run_fails"}

RemoteOutcomes ==
    [kind : RemoteFailures, code : {0}] \cup [kind : {"exit"}, code : ExitCodes]

\* a dispatcher that reports the return code whatever it is
ExitMessageAlways(ret) ==
    <<[name |-> "stderr",
       text |-> <<"remote execution of workflow exited with code", ToString(ret)>>]>>

\* lines 206-209: the message sent when the return code is not zero
ExitMessage(ret) ==
    IF ret # 0
    THEN <<[name |-> "stderr",
            text |-> <<"remote execution of workflow exited with code", ToString(ret)>>]>>
    ELSE <<>>

\* lines 210-213: the message sent when run_command raises
FailureMessage(kernel) ==
    IF kernel THEN <<[name |-> "stdout", text |-> <<"exception">>]>> ELSE <<>>

\* lines 179-214: remote delegation
RswRemoteWith(cv, raw, kernel, wm, out) ==
    /\ Entered(cv, raw, kernel, wm)
    /\ Route(raw, wm) = "remote"
    /\  LET a == Args(raw)
            delegated == out.kind # "resolve_fails" /\ ~cv.blank
        IN
        \* line 152
        /\ verbosity' = a.verbosity
        \* lines 181-186
        /\ sos_dict' = [AsFound(sos_dict) EXCEPT !["CONFIG"] = Current]
        /\ hosts' = IF out.kind = "resolve_fails" THEN hosts ELSE hosts \cup {a.remote}
        \* lines 190-192
        /\ fs' = IF delegated THEN fs \cup {".sos/__interactive__.sos"} ELSE fs
        /\ took' = IF delegated THEN {"remote"} ELSE {}
        \* lines 202-213
        /\ stream' =
             IF delegated /\ out.kind = "exit" THEN stream \o ExitMessage(out.code)
             ELSE IF delegated /\ out.kind = "run_fails"
             THEN stream \o FailureMessage(kernel)
             ELSE stream
        /\ result' = IF out.kind = "resolve_fails" THEN Raise("HostError")
                     ELSE IF delegated /\ out.kind = "send_fails"
                     THEN Raise("TransportError")
                     ELSE Return("None")
    /\ UNCHANGED <<mpc, script>>
    /\ UNCHANGED <<os_path, config, stderr>>
    /\ UNCHANGED wrkVars

RswRemote(cv, raw, kernel, wm) ==
    \E out \in RemoteOutcomes : RswRemoteWith(cv, raw, kernel, wm, out)

\* lines 216-255 with blank code: the try block returns at once
RswBlank(cv, raw, kernel, wm) ==
    /\ Entered(cv, raw, kernel, wm)
    /\ Route(raw, wm) # "remote"
    /\ cv.blank
    /\ os_path' = PrepPath(Args(raw), os_path)
    /\ fs' = PrepFs(Args(raw), fs)
    /\ sos_dict' = ClearStepKeys(AsFound(sos_dict))
    /\ config' = FinallyConfig(config)
    /\ verbosity' = FinallyVerbosity
    /\ result' = Return("None")
    /\ took' = {}
    /\ UNCHANGED <<mpc, script>>
    /\ UNCHANGED <<stderr, stream, hosts>>
    /\ UNCHANGED wrkVars

\* lines 216-268: the worker path up to executor.start()
RswSpawn(cv, raw, kernel, wm) ==
    /\ Entered(cv, raw, kernel, wm)
    /\ Route(raw, wm) = "worker"
    /\ ~cv.blank
    /\ \E parse \in {"ok", "ParseError"} :
        LET a == Args(raw)
            \* line 263: env.config['sockets'] of a process without controller
            exc == IF parse # "ok" THEN parse
                   ELSE IF config.sockets = 0 THEN "KeyError"
                   ELSE "none"
        IN
        /\ os_path' = PrepPath(a, os_path)
        /\ fs' = PrepFs(a, fs)
        /\ sos_dict' = ClearStepKeys(AsFound(sos_dict))
        /\ IF exc = "none"
           THEN /\ nwork < MaxWorkers
                /\ nwork' = nwork + 1
                /\ wpc' = [wpc EXCEPT ![nwork + 1] = "start"]
                /\ replyChan' = [replyChan EXCEPT ![nwork + 1] =
                        [st |-> "idle", to |-> config.sockets, sends |-> 0, recvs |-> 0]]
                /\ took' = {"worker"}
                /\ mpc' = "rsw_spawned"
                /\ verbosity' = a.verbosity
                /\ result' = NoResult
                /\ UNCHANGED <<config, stderr>>
           ELSE /\ UNCHANGED <<nwork, wpc, replyChan, mpc>>
                /\ took' = {}
                /\ stderr' = IF WritesTrace(exc, a) THEN Append(stderr, "traceback") ELSE stderr
                /\ config' = FinallyConfig(config)
                /\ verbosity' = FinallyVerbosity
                /\ result' = Classify(exc)
    /\ UNCHANGED <<script, stream, hosts>>
    /\ UNCHANGED <<wexc, logChan, wrecv>>

\* a dispatcher that joins its workers before it returns
WorkersJoined == \A w \in Wrk : wpc[w] \in {"none", "exited"}

\* line 269: nothing stands between executor.start() and the return
SpawnedMayReturn == TRUE

\* lines 269, 294-295: return right after executor.start()
RswSpawnReturn ==
    /\ mpc = "rsw_spawned"
    /\ SpawnedMayReturn
    /\ config' = FinallyConfig(config)
    /\ verbosity' = FinallyVerbosity
    /\ result' = Return("None")
    /\ mpc' = "idle"
    /\ UNCHANGED <<cur, req, script, took>>
    /\ UNCHANGED <<sys_argv, handlers, os_path, fs, sos_dict, stderr, stream, hosts>>
    /\ UNCHANGED ctlVars
    /\ UNCHANGED wrkVars

\* what SoS_Script / script.workflow (lines 277, 280) and analyze_section
\* (line 86) can do: go through, or raise
ScratchOutcomes == {"ok", "ParseError", "UnknownTarget", "RemovedTarget", "RuntimeError"}

\* lines 216-281 and 74-92: the scratch path up to the step's execution
RswScratchWith(cv, raw, kernel, wm, dt, out) ==
    /\ Entered(cv, raw, kernel, wm)
    /\ Route(raw, wm) = "scratch"
    /\ ~cv.blank
    /\  LET a == Args(raw)
            refused == cv.section
            \* analyze_section is reached when the wrapped code has parsed
            inCell == ~refused /\ out # "ParseError"
            cleared == ClearStepKeys(AsFound(sos_dict))
            cfg == [config EXCEPT !.master_id = "0"]
            \* lines 230-251 and 74-76: env.config.update(config)
            cellCfg == [cfg EXCEPT !.workflow_id = "0", !.sig_mode = a.sig_mode,
                                    !.run_mode = "interactive",
                                    !.output_dag = Resolve(a.dag, DefaultDag(dt)),
                                    !.output_report = Resolve(a.report, DefaultReport(dt))]
        IN
        /\ os_path' = PrepPath(a, os_path)
        /\ fs' = PrepFs(a, fs)
        /\ took' = {}
        /\ IF refused
           THEN \* lines 278-279
                /\ sos_dict' = cleared
                /\ config' = FinallyConfig(cfg)
                /\ verbosity' = FinallyVerbosity
                /\ result' = Return("None")
                /\ script' = <<>>
                /\ UNCHANGED <<stderr, mpc>>
           ELSE IF out = "ok"
           THEN /\ sos_dict' = SetAnalysis(ScratchClear(cleared))
                /\ config' = cellCfg
                /\ verbosity' = a.verbosity
                /\ mpc' = "rsw_step"
                /\ result' = NoResult
                /\ script' = cv.script
                /\ UNCHANGED stderr
           ELSE /\ sos_dict' = IF inCell THEN ScratchClear(cleared) ELSE cleared
                /\ config' = FinallyConfig(IF inCell THEN cellCfg ELSE cfg)
                /\ verbosity' = FinallyVerbosity
                /\ stderr' = IF WritesTrace(Convert(out), a)
                             THEN Append(stderr, "traceback") ELSE stderr
                /\ result' = Classify(Convert(out))
                /\ script' = <<>>
                /\ UNCHANGED mpc
    /\ UNCHANGED <<stream, hosts>>
    /\ UNCHANGED wrkVars

RswScratch(cv, raw, kernel, wm, dt) ==
    \E out \in ScratchOutcomes : RswScratchWith(cv, raw, kernel, wm, dt, out)

\* what executor.run() of line 93 can do: return, or raise
StepOutcomes == {"ok"} \cup EngineRaises

\* lines 93, 281-295: the step runs inline and the dispatch ends
RswStep(out) ==
    /\ mpc = "rsw_step"
    /\ took' = took \cup {"scratch"}
    /\ sos_dict' = IF out = "ok" THEN StepWrites(sos_dict) ELSE sos_dict
    /\ stderr' = IF out # "ok" /\ WritesTrace(Convert(out), Args(req.raw))
                 THEN Append(stderr, "traceback") ELSE stderr
    /\ result' = IF out = "ok" THEN Return("last_res") ELSE Classify(Convert(out))
    /\ config' = FinallyConfig(config)
    /\ verbosity' = FinallyVerbosity
    /\ mpc' = "idle"
    /\ script' = <<>>
    /\ UNCHANGED <<cur, req>>
    /\ UNCHANGED <<sys_argv, handlers, os_path, fs, stream, hosts>>
    /\ UNCHANGED ctlVars
    /\ UNCHANGED wrkVars

(* ----------------------------- specification --------------------------- *)

\* the calls the caller can make
Requests ==
    [cv : CodeViews, raw : RawArgs, kernel : BOOLEAN, wm : BOOLEAN,
     dt : {"110126_0900"}]

\* requests with the options of the output files, at any time
OutputRequests ==
    [cv : CodeViews, raw : OutputArgs \cup {<<>>, <<"-r", "host">>},
     kernel : BOOLEAN, wm : BOOLEAN, dt : Stamps]

\* the caller calls run_sos_workflow and the call gets past line 166
Dispatch(cv, raw, kernel, wm, dt) ==
    \/ RswRemote(cv, raw, kernel, wm)
    \/ RswBlank(cv, raw, kernel, wm)
    \/ RswSpawn(cv, raw, kernel, wm)
    \/ RswScratch(cv, raw, kernel, wm, dt)

\* the calls of start_controller and stop_controller
ControllerCalls ==
    \/ StartCall
    \/ StopNone
    \/ \E h \in Ctl : StopCall(h)

\* the calls of run_sos_workflow with requests of the set rs
DispatchCallsOf(rs) ==
    /\ mpc = "idle"
    /\ \/ RswHelp
       \/ RswArgError
       \/ \E raw \in {r.raw : r \in rs}, kernel \in BOOLEAN :
              RswNoHandler(raw, kernel)
       \/ /\ InstallsHandler(TRUE)
          /\ \E r \in rs :
                r.kernel /\ Dispatch(r.cv, r.raw, r.kernel, r.wm, r.dt)

DispatchCalls == DispatchCallsOf(Requests)

\* the start_controller or stop_controller call in progress goes on
ControllerProgress ==
    \/ StartWait \/ StartConnect
    \/ StopSend \/ StopRecv \/ StopDisconnect \/ StopJoin

\* the run_sos_workflow call in progress goes on
DispatchProgress ==
    \/ RswSpawnReturn
    \/ \E out \in StepOutcomes : RswStep(out)

\* the controller service threads
ControllerStep ==
    \E c \in Ctl :
        \/ ControllerReady(c)
        \/ ControllerDone(c)
        \/ \E w \in Wrk : ControllerAck(c, w)

\* the worker processes
WorkerStep ==
    \E w \in Wrk :
        \/ WExecute(w) \/ WLogDone(w) \/ WSendOutcome(w)
        \/ WRecvAck(w) \/ WHandler(w)

Next ==
    \/ ControllerCalls \/ DispatchCalls
    \/ ControllerProgress \/ DispatchProgress
    \/ ControllerStep \/ WorkerStep

Spec == Init /\ [][Next]_vars

\* A caller that only calls run_sos_workflow, in a process without controller
DispatchNext ==
    \/ DispatchCalls
    \/ \E out \in StepOutcomes : RswStep(out)

DispatchSpec == Init /\ [][DispatchNext]_vars

\* The same caller, with the options of the output files and at any time
OutputNext ==
    \/ DispatchCallsOf(OutputRequests)
    \/ \E out \in StepOutcomes : RswStep(out)

OutputSpec == Init /\ [][OutputNext]_vars

\* A caller that starts and stops controllers and launches workers, with the
\* threads and processes it creates. The main thread goes on with the
\* start_controller or stop_controller call it is in, and each controller
\* service signals readiness and acknowledges a 'done' request; nothing is
\* assumed of the workers.
LaunchCalls ==
    /\ mpc = "idle"
    /\ InstallsHandler(TRUE)
    /\ \E r \in Requests : RswSpawn(r.cv, r.raw, r.kernel, r.wm)

ServiceNext ==
    \/ ControllerCalls \/ LaunchCalls
    \/ ControllerProgress \/ RswSpawnReturn
    \/ ControllerStep \/ WorkerStep

ServiceSpec ==
    /\ Init
    /\ [][ServiceNext]_vars
    /\ WF_vars(ControllerProgress)
    /\ \A c \in Ctl : WF_vars(ControllerReady(c)) /\ WF_vars(ControllerDone(c))

(* -------------------------------- claims ------------------------------- *)

Range(q) == {q[i] : i \in 1..Len(q)}

\* a call of run_sos_workflow whose code is blank, whatever else it is given
BlankCall ==
    /\ mpc = "idle"
    /\ \E r \in Requests :
        /\ r.cv.blank
        /\ \/ Has(r.raw, "-h") /\ RswHelp
           \/ ~Has(r.raw, "-h") /\ ParseFails(r.raw) /\ RswArgError
           \/ RswNoHandler(r.raw, r.kernel)
           \/ Dispatch(r.cv, r.raw, r.kernel, r.wm, r.dt)

\* C1: every call of run_sos_workflow with empty or whitespace-only code
\* returns and leaves the process-wide state as it was: env.sos_dict,
\* env.config, env.verbosity, the logger's handlers, sys.argv, PATH and the
\* filesystem are unchanged, no worker is spawned, no host is contacted.
C1_BlankCodeChangesNothing ==
    [][BlankCall =>
        /\ result'.kind = "return"
        /\ UNCHANGED <<sos_dict, config, verbosity, handlers, sys_argv,
                       os_path, fs, nwork, hosts>>]_vars

\* C2: a dispatch takes at most one of the three execution paths, by fixed
\* priority: remote delegation when the remote option is set (whatever
\* workflow_mode is), else a worker when workflow_mode is true, else the
\* inline step; no dispatch spawns a worker and runs a step, or does either
\* after it has delegated.
C2_OnePathByPriority ==
    /\ Cardinality(took) <= 1
    /\ took # {} => req.active
    /\ "remote" \in took => Args(req.raw).remote # ""
    /\ "worker" \in took => Args(req.raw).remote = "" /\ req.workflow_mode
    /\ "scratch" \in took => Args(req.raw).remote = "" /\ ~req.workflow_mode
    /\ mpc = "rsw_spawned" => took = {"worker"}
    /\ mpc = "rsw_step" =>
          took = {} /\ Args(req.raw).remote = "" /\ ~req.workflow_mode

\* a request with the remote option and workflow_mode both set was delegated
C2_RemoteBeatsWorker ==
    /\ req.active
    /\ Args(req.raw).remote # ""
    /\ req.workflow_mode
    /\ took = {"remote"}

\* the lifecycle states in their order
LifeSteps ==
    { <<"Uninitialized", "Starting">>, <<"Starting", "Ready">>,
      <<"Ready", "Stopping">>, <<"Stopping", "Stopped">> }

\* a handle moves one lifecycle state forward at a time
LifeInOrder ==
    [][\A c \in Ctl : life'[c] # life[c] => <<life[c], life'[c]>> \in LifeSteps]_vars

\* what has been done for a handle has been done in the order of the calls
StopInOrder ==
    [](\A c \in Ctl :
        /\ life[c] \in {"Ready", "Stopping", "Stopped"} => ready[c]
        /\ hist[c].sent <= 1
        /\ life[c] \in {"Stopping", "Stopped"} <=> hist[c].sent = 1
        /\ hist[c].acked => hist[c].sent = 1
        /\ hist[c].released => hist[c].acked
        /\ hist[c].joined => hist[c].released /\ thread[c] = "exited"
        /\ life[c] = "Stopped" <=> hist[c].joined)

\* start_controller returns, and stop_controller on the controller the
\* process is connected to returns with the handle Stopped
StartStopReturn ==
    \A c \in Ctl :
        /\ (mpc = "sc_wait" /\ cur = c) ~> (life[c] = "Ready" /\ bound = c)
        /\ (mpc = "stop_send" /\ cur = c /\ bound = c)
              ~> (life[c] = "Stopped" /\ mpc = "idle")

\* C3: start_controller followed by stop_controller on the returned controller
\* terminates when the controller service signals readiness and acknowledges
\* 'done'; the handle goes Uninitialized, Starting, Ready, Stopping, Stopped
\* in that order; the channels are bound only after readiness, 'done' is sent
\* once, the bindings are released only after the acknowledgement, and the
\* thread is joined only after the release.
C3_StartStopLifecycle == LifeInOrder /\ StopInOrder /\ StartStopReturn

\* a handle has gone through start_controller and stop_controller
C3_Stopped ==
    \E c \in Ctl :
        /\ life[c] = "Stopped"
        /\ hist[c] = [sent |-> 1, acked |-> TRUE, released |-> TRUE, joined |-> TRUE]
        /\ mpc = "idle"

\* C4: after any sequence of start_controller and stop_controller calls at
\* most one controller is live: there is never more than one running
\* controller service thread.
C4_AtMostOneController ==
    Cardinality({c \in Ctl : thread[c] = "running"}) <= 1

\* C5: every worker has sent exactly one outcome on the reply channel by the
\* time it exits, whether its run succeeded or raised; never none, never two.
C5_ExactlyOneOutcome ==
    \A w \in Wrk :
        /\ replyChan[w].sends <= 1
        /\ wpc[w] = "exited" => replyChan[w].sends = 1

\* C6: in a worker whose run succeeds the DONE marker is pushed first, then
\* the outcome is sent, then the worker waits for the acknowledgement on the
\* channel it sent on, and it exits only after it has received it.
C6_AckBeforeExit ==
    \A w \in Wrk :
        /\ replyChan[w].sends >= 1 => <<w, "DONE">> \in Range(logChan)
        /\ wrecv[w] # "none" => replyChan[w].sends = 1 /\ wrecv[w] = OutcomeChannel
        /\ wpc[w] = "exited" /\ replyChan[w].sends = 1 => replyChan[w].recvs = 1

\* C7: a worker whose run raises pushes the exception's text on the log
\* channel, sends nothing on the reply channel, waits for no acknowledgement
\* and exits; the spawning process is not blocked by it.
C7_FailureIsLogged ==
    /\ \A w \in Wrk :
          wpc[w] = "exited" /\ wexc[w] \in EngineRaises =>
              /\ <<w, wexc[w]>> \in Range(logChan)
              /\ replyChan[w].sends = 0
              /\ wrecv[w] = "none"
    /\ (mpc = "rsw_spawned" /\ \E w \in Wrk : wexc[w] \in EngineRaises)
          => ENABLED RswSpawnReturn

\* C8: a worker-mode dispatch returns to its caller right after the worker
\* has been started, with no value, whatever the worker does or fails to do:
\* once the worker is started the return is never held back.
C8_ReturnsAfterStart ==
    mpc = "rsw_spawned" =>
        ENABLED (RswSpawnReturn /\ result' = Return("None") /\ mpc' = "idle")

\* the dispatch has returned None and its worker has not begun its run
C8_ReturnedBeforeWorkerRan ==
    /\ mpc = "idle"
    /\ took = {"worker"}
    /\ result = Return("None")
    /\ \E w \in Wrk : wpc[w] = "start"

\* sends and receives of a request/reply channel alternate, a send first
Alternates(ch) ==
    /\ ch.sends - ch.recvs \in {0, 1}
    /\ ch.st \in {"sent", "replied"} <=> ch.sends = ch.recvs + 1

\* C9: on every request/reply channel to the controller service sends and
\* receives alternate, starting with a send, and every receive is made on the
\* channel the request was sent on.
C9_RequestReplyAlternate ==
    /\ Alternates(reqSock)
    /\ \A w \in Wrk :
          /\ Alternates(replyChan[w])
          /\ wrecv[w] # "none" => wrecv[w] = OutcomeChannel

\* C10: when the step of a scratch dispatch starts, the dictionary holds no
\* step input, step output, step depends or default output bound before the
\* dispatch: each of these keys is absent or reset.
C10_StepKeysCleared ==
    mpc = "rsw_step" =>
        \A k \in StepKeys : sos_dict[k] \in {Absent, EmptyTargets}

\* a step is about to run in a process whose dictionary held earlier values
C10_StepStarts ==
    /\ mpc = "rsw_step"
    /\ sos_dict["step_depends"] = Absent
    /\ sos_dict["workflow_id"] = Current

\* the script is one default section header put in front of lines that the
\* scan of line 275 let through
WrappedOnce(q) ==
    /\ Len(q) >= 2
    /\ q[1] = "header"
    /\ \A i \in 2..Len(q) : q[i] \in {"blank", "stmt"}
    /\ \E i \in 2..Len(q) : q[i] = "stmt"

\* an inline dispatch of code with a section header or an include directive
\* (the request of a dispatch is in req once its handler is installed)
SectionCall ==
    /\ mpc = "idle"
    /\ InstallsHandler(TRUE)
    /\ Args(req'.raw).remote = "" /\ ~req'.workflow_mode
    /\ \E cv \in CodeViews, dt \in Stamps :
        /\ cv.section
        /\ Dispatch(cv, req'.raw, TRUE, req'.workflow_mode, dt)

\* C11: an inline dispatch of non-blank code with no section header and no
\* include/from line runs the code behind exactly one default section header
\* and returns the step's last result; with a header or such a line it
\* returns no value and runs no step.
C11_WrapOrRefuse ==
    /\ [](mpc = "rsw_step" => WrappedOnce(script))
    /\ [][RswStep("ok") => result' = Return("last_res") /\ took' = {"scratch"}]_vars
    /\ [][SectionCall =>
            /\ result' = Return("None")
            /\ mpc' = "idle" /\ took' = {} /\ script' = <<>>]_vars

\* the step of a wrapped script has run and its last result was returned
C11_StepReturned ==
    /\ mpc = "idle"
    /\ took = {"scratch"}
    /\ result = Return("last_res")

\* C12: in the remote path every failure of the transport (resolving the
\* host, sending the script, running the command) is reported as a stream
\* message and none leaves run_sos_workflow as an exception.
C12_TransportFailuresReported ==
    result.kind = "raise" => result.val \notin {"HostError", "TransportError"}

\* a delegation of non-blank code whose remote command returns code n
RemoteExit(n) ==
    /\ mpc = "idle"
    /\ InstallsHandler(TRUE)
    /\ \E cv \in CodeViews :
          /\ ~cv.blank
          /\ RswRemoteWith(cv, req'.raw, TRUE, req'.workflow_mode,
                           [kind |-> "exit", code |-> n])

\* C13: a remote command that returns 0 sends no stream message; one that
\* returns N other than 0 sends exactly one, whose text holds N; the dispatch
\* returns normally in both cases.
C13_ExitCodeMessage ==
    [][\A n \in ExitCodes : RemoteExit(n) =>
          /\ result' = Return("None")
          /\ n = 0 => stream' = stream
          /\ n # 0 =>
                /\ Len(stream') = Len(stream) + 1
                /\ SubSeq(stream', 1, Len(stream)) = stream
                /\ ToString(n) \in Range(stream'[Len(stream')].text)]_vars

\* a remote command has returned a code other than 0 and was reported
C13_Reported ==
    /\ took = {"remote"}
    /\ result = Return("None")
    /\ Len(stream) = 1
    /\ stream[1].name = "stderr"
    /\ ToString(MaxExit) \in Range(stream[1].text)

\* an inline dispatch whose script or static analysis ends as out
ScratchCall(out) ==
    /\ mpc = "idle"
    /\ InstallsHandler(TRUE)
    /\ \E cv \in CodeViews, dt \in Stamps :
          /\ ~cv.section
          /\ RswScratchWith(cv, req'.raw, TRUE, req'.workflow_mode, dt, out)

\* how a dispatch ends whose try block raised e, at the verbosity v asked for
EndsAs(e, v) ==
    /\ e = "PendingTasks" => result' = Raise("PendingTasks") /\ stderr' = stderr
    /\ e = "SystemExit" => result' = Return("None") /\ stderr' = stderr
    /\ e \notin {"PendingTasks", "SystemExit"} =>
          /\ result' = Raise(e)
          /\ IF v > 2 THEN stderr' = Append(stderr, "traceback")
                      ELSE stderr' = stderr

\* C14: in the inline path a PendingTasks is re-raised unchanged, a
\* SystemExit is swallowed and the dispatch returns no value, and any other
\* exception is re-raised whatever the verbosity, which only decides whether
\* a trace is written to the error stream first.
C14_Classified ==
    /\ [][\A e \in EngineRaises :
            RswStep(e) => EndsAs(Convert(e), Args(req.raw).verbosity)]_vars
    /\ [][\A e \in ScratchOutcomes \ {"ok"} :
            ScratchCall(e) => EndsAs(Convert(e), Args(req'.raw).verbosity)]_vars

\* an exception of the step was re-raised after its trace was written
C14_Traced ==
    /\ took = {"scratch"}
    /\ result = Raise("RuntimeError")
    /\ stderr = <<"traceback">>
    /\ Args(req.raw).verbosity = 3

\* how a dispatch ends when the scratch executor was left with exception e
ConvertedOrItself(e) ==
    /\ e \in TargetErrors =>
          /\ result'.kind = "raise"
          /\ result'.val = "RuntimeError: Unavailable target " \o Target(e)
          /\ result'.val \notin TargetErrors
    /\ e \notin TargetErrors => result' = Classify(e)

\* C15: in the scratch executor an unknown or removed target, met by the
\* static analysis or by the step, becomes a runtime error that names the
\* target and reaches the caller; every other exception leaves the executor
\* as itself and ends the dispatch as the dispatcher ends that exception.
C15_TargetErrorsConverted ==
    /\ [][\A e \in EngineRaises : RswStep(e) => ConvertedOrItself(e)]_vars
    /\ [][\A e \in ScratchOutcomes \ {"ok", "ParseError"} :
            ScratchCall(e) => ConvertedOrItself(e)]_vars

\* a dispatch was ended by the runtime error made of a removed target
C15_Converted ==
    /\ took = {"scratch"}
    /\ result = Raise("RuntimeError: Unavailable target removed.txt")

\* an inline dispatch at the time dt whose cell is entered (lines 74-76)
CellCall(dt) ==
    /\ mpc = "idle"
    /\ InstallsHandler(TRUE)
    /\ \E cv \in CodeViews, out \in ScratchOutcomes \ {"ParseError"} :
          /\ ~cv.section
          /\ RswScratchWith(cv, req'.raw, TRUE, req'.workflow_mode, dt, out)

\* the value the configuration must hold for an output file, given the
\* option flag, the default of the dispatch and the arguments
Expected(raw, flag, default) ==
    IF ~Has(raw, flag) THEN default
    ELSE IF ValueOf(raw, flag, "") = "" THEN NoValue
    ELSE ValueOf(raw, flag, "")

\* C16: for the DAG file and the report file independently, the resolved
\* configuration value is the timestamped default (workflow_T.dot,
\* workflow_T.html) when no override is given, absent when the override is
\* the empty string, and the given name otherwise; the empty override and
\* no override never resolve to the same value.
C16_OutputsResolved ==
    [][\A dt \in Stamps :
          CellCall(dt) =>
              /\ config'.output_dag =
                     Expected(req'.raw, "-d", "workflow_" \o dt \o ".dot")
              /\ config'.output_report =
                     Expected(req'.raw, "-p", "workflow_" \o dt \o ".html")
              /\ Expected(<<"-d", "">>, "-d", "workflow_" \o dt \o ".dot")
                     # Expected(<<>>, "-d", "workflow_" \o dt \o ".dot")
              /\ Expected(<<"-p", "">>, "-p", "workflow_" \o dt \o ".html")
                     # Expected(<<>>, "-p", "workflow_" \o dt \o ".html")]_vars

\* a cell was entered with a named DAG file and an empty report override
C16_NamedAndEmpty ==
    /\ req.active
    /\ req.raw = <<"-d", "my.dot", "-p", "">>
    /\ config.workflow_id = "0"
    /\ config.output_dag = "my.dot"
    /\ config.output_report = NoValue

\* C17: stop_controller called with an absent handle is a no-op: it sends
\* nothing on the request channel, waits for no acknowledgement, releases no
\* channel binding, joins no thread and leaves every controller's lifecycle
\* state unchanged, and it can be called in whatever state the process is.
C17_StopNoneIsNoOp ==
    /\ [](mpc = "idle" => ENABLED StopNone)
    /\ [][StopNone =>
            /\ reqSock' = reqSock
            /\ hist' = hist
            /\ bound' = bound
            /\ thread' = thread
            /\ life' = life
            /\ stopped' = stopped
            /\ mpc' = "idle"]_vars

\* the caller can pass an absent handle while a controller is ready and its
\* request channel is idle, where a stop of that controller would send
C17_AbsentHandleWhileReady ==
    /\ ENABLED StopNone
    /\ \E c \in Ctl :
          /\ life[c] = "Ready"
          /\ bound = c
          /\ ENABLED StopCall(c)
    /\ reqSock.st = "idle"
    /\ reqSock.sends = 0

\* a dispatch with a kernel, made when the logger's first handler is already
\* a NotebookLoggingHandler
LaterCall ==
    /\ mpc = "idle"
    /\ handlers[1].kind = "notebook"
    /\ \E raw \in RawArgs : RswNoHandler(raw, TRUE)

\* C18: with a kernel attached the logger carries exactly one
\* NotebookLoggingHandler from the first dispatch on; a later dispatch only
\* gives that handler the title of its own command line and then goes on to
\* its execution path, as the first dispatch did.
C18_LaterDispatchRetitles ==
    /\ [](handlers[1].kind = "notebook" => Len(handlers) = 1)
    /\ [][LaterCall =>
            /\ handlers'[1].kind = "notebook"
            /\ handlers'[1].title = sys_argv'
            /\ result' # Raise("AttributeError")]_vars

\* the messages the worker w has pushed on the log channel
LogOf(w) == {i \in 1..Len(logChan) : logChan[i][1] = w}

\* C19: a worker emits one message on the log channel per run, the DONE
\* marker when its run succeeds or the exception text when it fails, never
\* both: a failure after the DONE marker adds no exception message.
C19_OneLogMessagePerRun ==
    \A w \in Wrk :
        /\ Cardinality(LogOf(w)) <= 1
        /\ wpc[w] = "exited" /\ wexc[w] # "SystemExit" =>
              Cardinality(LogOf(w)) = 1

\* a dispatch ends that got past the parsing of its arguments and asked
\* neither for help nor for a remote host
LocalDispatchEnds ==
    \/ /\ mpc = "idle"
       /\ \E raw \in RawArgs, kernel \in BOOLEAN :
             Args(raw).remote = "" /\ RswNoHandler(raw, kernel)
    \/ /\ mpc = "idle"
       /\ InstallsHandler(TRUE)
       /\ mpc' = "idle"
       /\ Args(req'.raw).remote = ""
       /\ \E cv \in CodeViews, dt \in Stamps :
             Dispatch(cv, req'.raw, TRUE, req'.workflow_mode, dt)
    \/ RswSpawnReturn
    \/ \E out \in StepOutcomes : RswStep(out)

\* a help request or a remote delegation ends
HelpOrRemoteEnds ==
    \/ RswHelp
    \/ /\ mpc = "idle"
       /\ InstallsHandler(TRUE)
       /\ \E cv \in CodeViews :
             RswRemote(cv, req'.raw, TRUE, req'.workflow_mode)

\* C20: every dispatch that gets past argument parsing and is neither a help
\* request nor a remote delegation leaves the execution context with
\* signature mode 'ignore' and verbosity 2, whether it returned a value,
\* returned nothing or raised; a help request or a remote delegation leaves
\* the signature mode as it was.
C20_ContextRestored ==
    /\ [][LocalDispatchEnds =>
            config'.sig_mode = "ignore" /\ verbosity' = 2]_vars
    /\ [][HelpOrRemoteEnds => config'.sig_mode = config.sig_mode]_vars

=============================================================================
